---- MODULE Spec2Model ----
(***************************************************************************)
(* Model of n3rgy-rs: the date-range batching done in main, the per-batch  *)
(* pull_and_load pipeline (pull_usage, construct_influx_measurements, the  *)
(* influx write) and the influx_format conversions of models.rs.           *)
(*                                                                         *)
(* Time is counted in ticks, TicksPerSec ticks to the second, so that the  *)
(* truncations the code performs (Duration::num_days, DateTime::timestamp, *)
(* the "%Y%m%d%H%M" request format) are real conversions.  f64 readings    *)
(* are modelled as integers.                                               *)
(***************************************************************************)
EXTENDS Integers, Sequences, FiniteSets, TLC

VARIABLES
    cli_start,      \* cli.start_date
    cli_end,        \* cli.end_date
    pc,             \* position of main: "main", "pull", "construct", "query", "done", "panicked"
    panic,          \* the unwrap() that panicked: "none", "send", "text", "parse", "query"
    date_batches,   \* the batches main hands to pull_and_load, in order
    idx,            \* 1-based index of the batch being processed
    measurements,   \* pull_and_load: the parsed ConsumptionOrTariff of the current batch
    readings,       \* pull_and_load: the Vec<WriteQuery> of the current batch
    fetches,        \* history: the HTTP requests sent, in order
    results,        \* history: per batch, the payload and what it was normalized to
    writes,         \* history: the influx write queries issued, in order
    log             \* history: the messages printed by Error::log_out

vars == <<cli_start, cli_end, pc, panic, date_batches, idx, measurements,
          readings, fetches, results, writes, log>>

-----------------------------------------------------------------------------
(* Units *)

TicksPerSec == 2
SecsPerMinute == 60
SecsPerDay == 86400
MaxSpanDays == 90

TicksPerMinute == SecsPerMinute * TicksPerSec
TicksPerDay == SecsPerDay * TicksPerSec

\* Duration::days(n)
Days(n) == n * TicksPerDay

\* Rust integer division: truncates toward zero
TruncDiv(a, b) == IF a >= 0 THEN a \div b ELSE -((-a) \div b)

\* Duration::num_days(): whole days, truncated toward zero
num_days(d) == TruncDiv(d, TicksPerDay)

\* DateTime::timestamp(): whole seconds since the epoch (floor)
timestamp(t) == t \div TicksPerSec

\* start_date.format("%Y%m%d%H%M"): the instant cut to its minute
FormatRequestDate(t) == t \div TicksPerMinute

-----------------------------------------------------------------------------
(* Bounds of the inputs *)

MaxBatches == 2
MaxPoints == 3
MaxTariffValues == 2

\* whole-day part of end - start: around every multiple of the span
DayChoices ==
    { k * MaxSpanDays + d : k \in 0..MaxBatches, d \in {-1, 0, 1, 20} }

\* sub-day part of end - start: a tick either way, or half a day
SubDayChoices == { -1, 0, 1, TicksPerDay \div 2 }

StartDates == 0..(TicksPerSec - 1)

EndDates(start) ==
    { start + Days(n) + s : n \in DayChoices, s \in SubDayChoices }

-----------------------------------------------------------------------------
(* main: date batching *)

min_dates(d1, d2) ==
    LET d1_unix == timestamp(d1)
        d2_unix == timestamp(d2)
    IN  IF d1_unix < d2_unix THEN d1
        ELSE IF d1_unix > d2_unix THEN d2
        ELSE d1

RECURSIVE BatchLoop(_, _, _, _)
BatchLoop(start_date, end_date, batches, end) ==
    IF end > end_date
    THEN LET s == start_date + Days(MaxSpanDays)
             e == min_dates(s + Days(MaxSpanDays), end)
         IN  BatchLoop(s, e, Append(batches, <<s, e>>), end)
    ELSE batches

DateBatches(start, end) ==
    LET date_difference == num_days(end - start)
    IN  IF date_difference > MaxSpanDays
        THEN BatchLoop(start, start + Days(MaxSpanDays),
                       << <<start, start + Days(MaxSpanDays)>> >>, end)
        ELSE << <<start, end>> >>

-----------------------------------------------------------------------------
(* models.rs: point records and their builders *)

\* Utc::now(): the wall clock, later than every instant of the data
NowTime == Days(MaxSpanDays * (MaxBatches + 3))

ConsumptionReading_new ==
    [time |-> NowTime, consumption |-> 0, measurement |-> "default"]

ConsumptionReading_time(self, time) == [self EXCEPT !.time = time]

ConsumptionReading_consumption(self, consumption) ==
    [self EXCEPT !.consumption = consumption]

ConsumptionReading_measurement(self, measurement) ==
    [self EXCEPT !.measurement = measurement]

ConsumptionReading_build(self) ==
    [time |-> self.time, consumption |-> self.consumption,
     measurement |-> self.measurement]

TariffPrice_new ==
    [time |-> NowTime, price |-> 0, measurement |-> "default",
     price_type |-> "default"]

TariffPrice_time(self, time) == [self EXCEPT !.time = time]

TariffPrice_price(self, price) == [self EXCEPT !.price = price]

TariffPrice_measurement(self, measurement) ==
    [self EXCEPT !.measurement = measurement]

TariffPrice_price_type(self, price_type) ==
    [self EXCEPT !.price_type = price_type]

TariffPrice_build(self) ==
    [time |-> self.time, price |-> self.price,
     measurement |-> self.measurement, price_type |-> self.price_type]

\* NaiveDate::and_hms_opt(0, 0, 0).unwrap().and_utc(): a date is a day number
MidnightUtc(date) == Days(date)

-----------------------------------------------------------------------------
(* models.rs: influx_format *)

\* ConsumptionPoint without the .time(value.timestamp) call
ConsumptionPointNoTime(resource, value) ==
    ConsumptionReading_build(
        ConsumptionReading_measurement(
            ConsumptionReading_consumption(ConsumptionReading_new, value.value),
            resource))

ConsumptionPoint(resource, value) ==
    ConsumptionReading_build(
        ConsumptionReading_measurement(
            ConsumptionReading_time(
                ConsumptionReading_consumption(ConsumptionReading_new, value.value),
                value.timestamp),
            resource))

RECURSIVE ConsumptionLoop(_, _, _)
ConsumptionLoop(resource, values, acc) ==
    IF values = <<>> THEN acc
    ELSE ConsumptionLoop(resource, Tail(values),
                         Append(acc, ConsumptionPoint(resource, Head(values))))

Consumption_influx_format(self) ==
    ConsumptionLoop(self.resource, self.values, <<>>)

PricePoint(resource, price) ==
    TariffPrice_build(
        TariffPrice_measurement(
            TariffPrice_price_type(
                TariffPrice_time(
                    TariffPrice_price(TariffPrice_new, price.value),
                    price.timestamp),
                "Price"),
            resource))

\* StandingChargePoint tagged like a price
StandingChargePointAsPrice(resource, stdcharge) ==
    TariffPrice_build(
        TariffPrice_measurement(
            TariffPrice_price_type(
                TariffPrice_time(
                    TariffPrice_price(TariffPrice_new, stdcharge.value),
                    MidnightUtc(stdcharge.start_date)),
                "Price"),
            resource))

StandingChargePoint(resource, stdcharge) ==
    LET start_time == MidnightUtc(stdcharge.start_date)
    IN  TariffPrice_build(
            TariffPrice_measurement(
                TariffPrice_price_type(
                    TariffPrice_time(
                        TariffPrice_price(TariffPrice_new, stdcharge.value),
                        start_time),
                    "StandingCharge"),
                resource))

RECURSIVE PricesLoop(_, _, _)
PricesLoop(resource, prices, acc) ==
    IF prices = <<>> THEN acc
    ELSE PricesLoop(resource, Tail(prices),
                    Append(acc, PricePoint(resource, Head(prices))))

RECURSIVE StandingChargesLoop(_, _, _)
StandingChargesLoop(resource, charges, acc) ==
    IF charges = <<>> THEN acc
    ELSE StandingChargesLoop(resource, Tail(charges),
                             Append(acc, StandingChargePoint(resource, Head(charges))))

RECURSIVE TariffLoop(_, _, _)
TariffLoop(resource, values, acc) ==
    IF values = <<>> THEN acc
    ELSE LET value == Head(values)
             withPrices == PricesLoop(resource, value.prices, acc)
             withCharges ==
                 StandingChargesLoop(resource, value.standing_charges, withPrices)
         IN  TariffLoop(resource, Tail(values), withCharges)

Tariff_influx_format(self) == TariffLoop(self.resource, self.values, <<>>)

-----------------------------------------------------------------------------
(* The payloads a response body can deserialize to *)

Resources == {"electricity", "gas"}

ThirtyMinutes == 30 * TicksPerMinute

ValueSet ==
    [timestamp : {0, ThirtyMinutes}, value : {0, 7}, status : {"null", "estimated"}]

PriceSet == { [timestamp |-> 0, value |-> 3],
              [timestamp |-> ThirtyMinutes, value |-> 4] }

StandingChargeSet == { [start_date |-> 1, value |-> 5],
                       [start_date |-> 2, value |-> 6] }

SeqsUpTo(S, n) == UNION { [1..k -> S] : k \in 0..n }

ConsumptionPayloads ==
    { [kind |-> "consumption", resource |-> r, values |-> v] :
        r \in Resources, v \in SeqsUpTo(ValueSet, MaxPoints) }

\* the TariffValues holding at most n entries in all
TariffValuesSet(n) ==
    { w \in [prices : SeqsUpTo(PriceSet, n),
             standing_charges : SeqsUpTo(StandingChargeSet, n)] :
        Len(w.prices) + Len(w.standing_charges) <= n }

\* the sequences of at most w TariffValues holding at most n entries in all
RECURSIVE TariffValuesSeqs(_, _)
TariffValuesSeqs(n, w) ==
    IF w = 0 THEN { <<>> }
    ELSE { <<>> } \cup
         UNION { { <<tv>> \o rest :
                     rest \in TariffValuesSeqs(
                         n - (Len(tv.prices) + Len(tv.standing_charges)), w - 1) } :
                 tv \in TariffValuesSet(n) }

TariffPayloads ==
    { [kind |-> "tariff", resource |-> r, values |-> v] :
        r \in Resources, v \in TariffValuesSeqs(MaxPoints, MaxTariffValues) }

ErrorPayloads ==
    { [kind |-> "error", message |-> m] : m \in {"unauthorized", "no data"} }

Payloads == ConsumptionPayloads \cup TariffPayloads \cup ErrorPayloads

\* the bodies the remote API answers with while batches are being loaded
ResponsePayloads ==
    { [kind |-> "error", message |-> "unauthorized"],
      [kind |-> "consumption", resource |-> "electricity", values |-> <<>>],
      [kind |-> "consumption", resource |-> "electricity",
       values |-> << [timestamp |-> ThirtyMinutes, value |-> 7, status |-> "null"] >>],
      [kind |-> "tariff", resource |-> "gas",
       values |-> << [prices |-> <<>>, standing_charges |-> <<>>] >>],
      [kind |-> "tariff", resource |-> "gas",
       values |-> << [prices |-> << [timestamp |-> 0, value |-> 3] >>,
                      standing_charges |-> << [start_date |-> 1, value |-> 5] >>] >>] }

NoPayload == [kind |-> "none"]

-----------------------------------------------------------------------------
(* main.rs: construct_influx_measurements *)

\* InfluxDbWriteable::into_query(name)
into_query(m, name) == [name |-> name, point |-> m]

RECURSIVE IntoQueries(_, _)
IntoQueries(points, acc) ==
    IF points = <<>> THEN acc
    ELSE IntoQueries(Tail(points), Append(acc, into_query(Head(points), "energy")))

construct_influx_measurements(parsed_messages) ==
    IF parsed_messages.kind = "consumption"
    THEN IntoQueries(Consumption_influx_format(parsed_messages), <<>>)
    ELSE IF parsed_messages.kind = "tariff"
    THEN IntoQueries(Tariff_influx_format(parsed_messages), <<>>)
    ELSE <<>>

\* Error::log_out: what the Error arm prints
log_out(error) == error.message

\* LoggedBy without the Error arm
LoggedBySilent(parsed_messages) == <<>>

\* the lines construct_influx_measurements adds to the log
LoggedBy(parsed_messages) ==
    IF parsed_messages.kind = "error" THEN << log_out(parsed_messages) >> ELSE <<>>

-----------------------------------------------------------------------------
(* main.rs: the run *)

Init ==
    /\ cli_start \in StartDates
    /\ cli_end \in EndDates(cli_start)
    /\ pc = "main"
    /\ panic = "none"
    /\ date_batches = <<>>
    /\ idx = 0
    /\ measurements = NoPayload
    /\ readings = <<>>
    /\ fetches = <<>>
    /\ results = <<>>
    /\ writes = <<>>
    /\ log = <<>>

\* main, lines 24-37 and the else branch: the batches to load
Main ==
    /\ pc = "main"
    /\ date_batches' = DateBatches(cli_start, cli_end)
    /\ idx' = 1
    /\ pc' = "pull"
    /\ UNCHANGED <<cli_start, cli_end, panic, measurements, readings, fetches,
                   results, writes, log>>

\* the GET request pull_usage sends for the current batch
Request ==
    [window |-> idx,
     start |-> date_batches[idx][1],
     end |-> date_batches[idx][2],
     request_start |-> FormatRequestDate(date_batches[idx][1]),
     request_end |-> FormatRequestDate(date_batches[idx][2])]

\* pull_usage: the response body deserializes to payload
PullUsage ==
    /\ pc = "pull"
    /\ \E payload \in ResponsePayloads : measurements' = payload
    /\ fetches' = Append(fetches, Request)
    /\ pc' = "construct"
    /\ UNCHANGED <<cli_start, cli_end, panic, date_batches, idx, readings,
                   results, writes, log>>

\* pull_usage: send() fails, the body cannot be read, or it does not
\* deserialize: the unwrap() at that place panics
PullUsagePanics ==
    /\ pc = "pull"
    /\ \E site \in {"send", "text", "parse"} : panic' = site
    /\ fetches' = Append(fetches, Request)
    /\ pc' = "panicked"
    /\ UNCHANGED <<cli_start, cli_end, date_batches, idx, measurements, readings,
                   results, writes, log>>

\* ShouldWrite without the length test
ShouldWriteAlways(r) == TRUE

\* pull_and_load, line 95
ShouldWrite(r) == Len(r) > 0

\* AfterBatch stopping one batch early
AfterBatchSkipsLast(i, n) == IF i + 1 < n THEN "pull" ELSE "done"

\* where main goes once batch i of n is loaded
AfterBatch(i, n) == IF i < n THEN "pull" ELSE "done"

\* pull_and_load, lines 89-95: normalize the payload and decide on the write
ConstructInfluxMeasurements ==
    /\ pc = "construct"
    /\ readings' = construct_influx_measurements(measurements)
    /\ log' = log \o LoggedBy(measurements)
    /\ results' = Append(results, [payload |-> measurements, readings |-> readings'])
    /\ IF ShouldWrite(readings')
       THEN /\ pc' = "query"
            /\ UNCHANGED <<idx, measurements>>
       ELSE /\ pc' = AfterBatch(idx, Len(date_batches))
            /\ idx' = idx + 1
            /\ measurements' = NoPayload
    /\ UNCHANGED <<cli_start, cli_end, panic, date_batches, fetches, writes>>

\* InfluxQuery with the result of the write dropped instead of unwrapped
InfluxQueryIgnoringFailure ==
    /\ pc = "query"
    /\ \E ok \in BOOLEAN :
        writes' = Append(writes, [window |-> idx, queries |-> readings, ok |-> ok])
    /\ pc' = IF idx < Len(date_batches) THEN "pull" ELSE "done"
    /\ idx' = idx + 1
    /\ measurements' = NoPayload
    /\ readings' = <<>>
    /\ UNCHANGED <<cli_start, cli_end, panic, date_batches, fetches, results, log>>

\* pull_and_load, line 96: the batched write and its unwrap()
InfluxQuery ==
    /\ pc = "query"
    /\ \E ok \in BOOLEAN :
        /\ writes' = Append(writes, [window |-> idx, queries |-> readings, ok |-> ok])
        /\ IF ok
           THEN /\ pc' = AfterBatch(idx, Len(date_batches))
                /\ idx' = idx + 1
                /\ measurements' = NoPayload
                /\ readings' = <<>>
                /\ UNCHANGED panic
           ELSE /\ pc' = "panicked"
                /\ panic' = "query"
                /\ UNCHANGED <<idx, measurements, readings>>
    /\ UNCHANGED <<cli_start, cli_end, date_batches, fetches, results, log>>

Next ==
    \/ Main
    \/ PullUsage
    \/ PullUsagePanics
    \/ ConstructInfluxMeasurements
    \/ InfluxQuery

Spec == Init /\ [][Next]_vars

-----------------------------------------------------------------------------
(* Normalization on its own: one batch whose response has just been        *)
(* deserialized, over every payload within the bounds                      *)

InitNormalize ==
    /\ cli_start = 0
    /\ cli_end = Days(1)
    /\ pc = "construct"
    /\ panic = "none"
    /\ date_batches = << <<0, Days(1)>> >>
    /\ idx = 1
    /\ measurements \in Payloads
    /\ readings = <<>>
    /\ fetches = << [window |-> 1, start |-> 0, end |-> Days(1),
                     request_start |-> FormatRequestDate(0),
                     request_end |-> FormatRequestDate(Days(1))] >>
    /\ results = <<>>
    /\ writes = <<>>
    /\ log = <<>>

NextNormalize ==
    \/ ConstructInfluxMeasurements
    \/ InfluxQuery

SpecNormalize == InitNormalize /\ [][NextNormalize]_vars

-----------------------------------------------------------------------------
(* Helpers of the properties *)

Min(a, b) == IF a <= b THEN a ELSE b

\* batch i has gone through fetch, normalization and, if it had points, the write
Completed(i) ==
    \/ i < idx
    \/ i = idx /\ pc = "panicked" /\ panic = "query"

WritesOf(i) == { k \in 1..Len(writes) : writes[k].window = i }

RECURSIVE ErrorMessages(_)
ErrorMessages(rs) ==
    IF rs = <<>> THEN <<>>
    ELSE IF Head(rs).payload.kind = "error"
         THEN << Head(rs).payload.message >> \o ErrorMessages(Tail(rs))
         ELSE ErrorMessages(Tail(rs))

EntriesOf(tv) == Len(tv.prices) + Len(tv.standing_charges)

\* number of points the TariffValues before the w-th account for
RECURSIVE EntriesBefore(_, _)
EntriesBefore(values, w) ==
    IF w <= 1 THEN 0 ELSE EntriesBefore(values, w - 1) + EntriesOf(values[w - 1])

-----------------------------------------------------------------------------
(* Properties *)

\* C1: for start <= end the batches are non-empty and ordered, start at
\* cli_start, end exactly at cli_end, each ends where the next starts; when
\* the range needs splitting, batch i (from 0) is
\* [start + i*90d, min(start + (i+1)*90d, end)]; a range of at most 90 whole
\* days is the single batch [start, end].
C1_BatchesCoverRange ==
    (pc # "main" /\ cli_start <= cli_end) =>
        LET n == Len(date_batches)
        IN  /\ n >= 1
            /\ date_batches[1][1] = cli_start
            /\ date_batches[n][2] = cli_end
            /\ \A i \in 1..n : date_batches[i][1] <= date_batches[i][2]
            /\ \A i \in 1..(n - 1) : date_batches[i][2] = date_batches[i + 1][1]
            /\ num_days(cli_end - cli_start) > MaxSpanDays =>
                 \A i \in 1..n :
                    /\ date_batches[i][1] = cli_start + Days((i - 1) * MaxSpanDays)
                    /\ date_batches[i][2] =
                         Min(cli_start + Days(i * MaxSpanDays), cli_end)
            /\ num_days(cli_end - cli_start) <= MaxSpanDays =>
                 date_batches = << <<cli_start, cli_end>> >>

\* C2: for start <= end, every batch handed to pull_usage spans at most 90 days.
C2_BatchWithinMaxSpan ==
    cli_start <= cli_end =>
        \A k \in 1..Len(fetches) :
            fetches[k].end - fetches[k].start <= Days(MaxSpanDays)

\* C3: a failed fetch (send or body read) or a body that does not parse never
\* aborts the run.
C3_FetchFailureDoesNotAbort ==
    cli_start <= cli_end =>
        ~(pc = "panicked" /\ panic \in {"send", "text", "parse"})

\* C4: a failed write is the last thing the run does: it is the last write,
\* no batch after its own is fetched, and the run is aborted, not done.
C4_WriteFailureAborts ==
    \A k \in 1..Len(writes) :
        ~writes[k].ok =>
            /\ k = Len(writes)
            /\ Len(fetches) = writes[k].window
            /\ pc = "panicked"
            /\ panic = "query"

C4_Witness ==
    \E k \in 1..Len(writes) :
        /\ ~writes[k].ok
        /\ writes[k].window < Len(date_batches)
        /\ pc = "panicked"

\* C5: a batch whose payload is the Error variant is normalized to no points,
\* its message is logged, and no write is issued for it.
C5_ApiErrorYieldsNoWrite ==
    /\ \A i \in 1..Len(results) :
          results[i].payload.kind = "error" =>
              /\ results[i].readings = <<>>
              /\ WritesOf(i) = {}
    /\ log = ErrorMessages(results)

C5_Witness ==
    \E i \in 1..Len(results) :
        /\ results[i].payload.kind = "error"
        /\ i < idx
        /\ \E j \in 1..Len(log) : log[j] = results[i].payload.message

\* C6: a batch is written if and only if it was normalized to at least one
\* point, and then by exactly one write holding exactly the points of that batch.
C6_WriteIffPoints ==
    /\ \A i \in 1..Len(results) :
          Completed(i) => (WritesOf(i) # {} <=> results[i].readings # <<>>)
    /\ \A k \in 1..Len(writes) :
          /\ writes[k].window \in 1..Len(results)
          /\ writes[k].queries = results[writes[k].window].readings
          /\ WritesOf(writes[k].window) = {k}

C6_Witness ==
    \E i, j \in 1..Len(results) :
        /\ Completed(i) /\ Completed(j)
        /\ Len(results[i].readings) > 1 /\ Cardinality(WritesOf(i)) = 1
        /\ results[j].readings = <<>> /\ WritesOf(j) = {}

\* C7: batches are fetched one at a time in order, once each; a batch is
\* fetched only after the one before it was normalized and, if it had points,
\* written; writes are in batch order; a finished run fetched every batch; a
\* 200-day range gives 3 fetches and, all with points, writes 1, 2, 3.
C7_SequentialInOrder ==
    /\ \A k \in 1..Len(fetches) :
          /\ fetches[k].window = k
          /\ <<fetches[k].start, fetches[k].end>> = date_batches[k]
    /\ \A i \in 1..(Len(fetches) - 1) :
          /\ i <= Len(results)
          /\ results[i].readings # <<>> => WritesOf(i) # {}
    /\ \A k \in 1..(Len(writes) - 1) : writes[k].window < writes[k + 1].window
    /\ \A k \in 1..Len(writes) : writes[k].window <= Len(fetches)
    /\ pc = "done" => Len(fetches) = Len(date_batches)
    /\ (pc = "done" /\ cli_end - cli_start = Days(200)) =>
          /\ Len(fetches) = 3
          /\ (\A i \in 1..3 : results[i].readings # <<>>) =>
                 [k \in 1..Len(writes) |-> writes[k].window] = <<1, 2, 3>>

C7_Witness ==
    /\ pc = "done"
    /\ cli_end - cli_start = Days(200)
    /\ Len(fetches) = 3
    /\ Len(writes) = 3

\* C8: a Consumption payload with N values is normalized to N readings in
\* input order, the k-th with the k-th value's timestamp and reading and the
\* payload's resource as measurement, whatever the status; the builder's
\* Utc::now() and "default" are always overwritten.
C8_ConsumptionFormat ==
    \A i \in 1..Len(results) :
        LET p == results[i].payload
            r == results[i].readings
        IN  p.kind = "consumption" =>
                /\ Len(r) = Len(p.values)
                /\ \A k \in 1..Len(r) :
                      /\ r[k].point = [time |-> p.values[k].timestamp,
                                       consumption |-> p.values[k].value,
                                       measurement |-> p.resource]
                      /\ r[k].point.time # NowTime
                      /\ r[k].point.measurement # "default"

C8_Witness ==
    \E i \in 1..Len(results) :
        /\ results[i].payload.kind = "consumption"
        /\ Len(results[i].payload.values) = MaxPoints
        /\ Len(results[i].readings) = MaxPoints
        /\ \E k \in 1..MaxPoints : results[i].payload.values[k].status = "estimated"

\* C9: a Tariff payload is normalized, TariffValues by TariffValues, to one
\* "Price" point per price (timestamp and value kept) followed by one
\* "StandingCharge" point per standing charge (value kept, time = midnight UTC
\* of its start date), all tagged with the payload's resource; the number of
\* points is the sum of |prices| + |standing_charges|.
C9_TariffFormat ==
    \A i \in 1..Len(results) :
        LET p == results[i].payload
            r == results[i].readings
        IN  p.kind = "tariff" =>
                /\ Len(r) = EntriesBefore(p.values, Len(p.values) + 1)
                /\ \A w \in 1..Len(p.values) :
                      LET tv == p.values[w]
                          off == EntriesBefore(p.values, w)
                      IN  /\ \A j \in 1..Len(tv.prices) :
                                r[off + j].point =
                                    [time |-> tv.prices[j].timestamp,
                                     price |-> tv.prices[j].value,
                                     measurement |-> p.resource,
                                     price_type |-> "Price"]
                          /\ \A j \in 1..Len(tv.standing_charges) :
                                r[off + Len(tv.prices) + j].point =
                                    [time |-> tv.standing_charges[j].start_date
                                                * SecsPerDay * TicksPerSec,
                                     price |-> tv.standing_charges[j].value,
                                     measurement |-> p.resource,
                                     price_type |-> "StandingCharge"]

C9_Witness ==
    \E i \in 1..Len(results) :
        LET p == results[i].payload
        IN  /\ p.kind = "tariff"
            /\ Len(p.values) = 1
            /\ Len(p.values[1].prices) = 2
            /\ Len(p.values[1].standing_charges) = 1
            /\ Len(results[i].readings) = 3

\* C10: when end is before start no batch is produced and nothing is fetched
\* or written.
C10_InvertedRangeRejected ==
    cli_end < cli_start =>
        /\ date_batches = <<>>
        /\ fetches = <<>>
        /\ writes = <<>>

====
